---- MODULE Spec2Model ----
(***************************************************************************)
(* A model of arrow-json2csv2schema: the command shell (cli.run and its    *)
(* helpers), the object flattener (MapToHeaderStrsSorted, val2str,         *)
(* MapToValueStrsSorted), the schema inference call (ToSchema) and the     *)
(* pretty serializer (toSerializableSchema).                               *)
(*                                                                         *)
(* Go strings on the command line are modelled as sequences of atoms (an   *)
(* atom is a separator character or an indivisible word); Join gives the   *)
(* string an atom sequence spells.  JSON object keys are sequences of      *)
(* byte values, so that byte order is computed and not assumed.            *)
(***************************************************************************)
EXTENDS Integers, Sequences, FiniteSets, TLC

VARIABLES
    \* ---- command shell (cli.run) ----
    pc,          \* position of cli.run
    Args,        \* cliApp.Args, as the flag values they spell
    parsed,      \* what parseFlags returned
    Input,       \* cliApp.Input  (a handle)
    Output,      \* cliApp.Output (a handle)
    acquired,    \* handles run holds after a successful openInput / openOutput
    closeCalls,  \* per handle: how many times Close was called on it
    created,     \* handles obtained from os.Create (file created or truncated)
    inputRead,   \* whether the input has been read
    written,     \* every write made to a handle, in order
    errs,        \* the errors that occurred, by stage, in order
    ExitCode,    \* cliApp.ExitCode
    ret,         \* the result value of cli.run, once a return statement ran
    deferred,    \* the stack of deferred calls of cli.run
    exited,      \* the code given to os.Exit, NotYet before
    opts,        \* what createOptions returned
    \* ---- object flattener ----
    jsonMap,     \* the decoded JSON object (JsonMapObject)
    hdr,         \* result of MapToHeaderStrsSorted
    row,         \* result of MapToValueStrsSorted
    \* ---- schema inference and serialization ----
    rdr,         \* the behaviour of the collaborator's *ac.Reader
    schemaRes,   \* result of ToSchema
    serial       \* result of toSerializableSchema

cliVars     == <<pc, Args, parsed, Input, Output, acquired, closeCalls, created,
                 inputRead, written, errs, ExitCode, ret, deferred, exited, opts>>
flattenVars == <<jsonMap, hdr, row>>
schemaVars  == <<rdr, schemaRes, serial>>
vars        == <<cliVars, flattenVars, schemaVars>>

(***************************************************************************)
(* Bounds of the model.                                                    *)
(***************************************************************************)
MaxTypesLen    == 4   \* atoms in a -types value (flag parsing on its own)
MaxCliTypesLen == 3   \* atoms in a -types value (whole runs of the shell)
MaxKeys        == 3   \* keys of a JSON object
MaxFields      == 2   \* fields of an inferred schema

NotYet == 0 - 1       \* "no value yet" for ret and exited

(***************************************************************************)
(* Strings                                                                 *)
(***************************************************************************)
Atoms == {"a", "string", "float64", "bool", ":", ","}

StrSeqs(n) == UNION {[1..k -> Atoms] : k \in 0..n}

RECURSIVE Join(_)
Join(s) == IF s = <<>> THEN "" ELSE Head(s) \o Join(Tail(s))

\* strings.Split(s, sep) for a one-atom separator: always at least one part.
RECURSIVE Split(_, _)
Split(s, sep) ==
    IF \A i \in 1..Len(s) : s[i] # sep
    THEN <<s>>
    ELSE LET i == CHOOSE k \in 1..Len(s) :
                      s[k] = sep /\ \A j \in 1..(k - 1) : s[j] # sep
         IN  <<SubSeq(s, 1, i - 1)>> \o Split(SubSeq(s, i + 1, Len(s)), sep)

(***************************************************************************)
(* Errors                                                                  *)
(***************************************************************************)
NoErr                  == "nil"
ErrFlagParse           == "flag: parse error"
ErrInvalidTypeMapping  == "invalid type mapping"
ErrNoCsvRecordBatchGot == "no csv record batch got"
ErrKeyNotFound         == "key not found"
ErrJsonDecode          == "json: decode error"
ErrCsvReader           == "csv: reader error"
ErrRead                == "read error"
ErrWrite               == "write error"
ErrOpen                == "open error"
ErrClose               == "close error"

(***************************************************************************)
(* parseFlags, typeFromString, createOptions                               *)
(***************************************************************************)
expectedTypeMappingParts_Three == 2 + 1

expectedTypeMappingParts == 2

EmptyMap == [k \in {} |-> "String"]

MapSet(m, k, v) == [x \in (DOMAIN m) \cup {k} |-> IF x = k THEN v ELSE m[x]]

typeFromString_NoBool(s) ==
    CASE s = "string"  -> "String"
      [] s = "float64" -> "Float64"
      [] OTHER         -> "String"

typeFromString(s) ==
    CASE s = "string"  -> "String"
      [] s = "float64" -> "Float64"
      [] s = "bool"    -> "Boolean"
      [] OTHER         -> "String"

\* The loop over the pairs of a non-empty -types value.
RECURSIVE ParsePairs(_, _)
ParsePairs(pairs, columnTypes) ==
    IF pairs = <<>>
    THEN [err |-> NoErr, columnTypes |-> columnTypes]
    ELSE LET kv == Split(Head(pairs), ":")
         IN  IF Len(kv) # expectedTypeMappingParts
             THEN [err |-> ErrInvalidTypeMapping, columnTypes |-> EmptyMap]
             ELSE ParsePairs(Tail(pairs),
                             MapSet(columnTypes, Join(kv[1]),
                                    typeFromString(Join(kv[2]))))

FlagsFailed(err) ==
    [err |-> err, pretty |-> FALSE, includeColumns |-> <<>>,
     columnTypes |-> EmptyMap, inputFile |-> "", outputFile |-> ""]

parseFlags(a) ==
    IF ~a.flagOk
    THEN FlagsFailed(ErrFlagParse)
    ELSE LET inc   == IF a.include # <<>> THEN Split(a.include, ",") ELSE <<>>
             types == IF a.types # <<>>
                      THEN ParsePairs(Split(a.types, ","), EmptyMap)
                      ELSE [err |-> NoErr, columnTypes |-> EmptyMap]
         IN  IF types.err # NoErr
             THEN FlagsFailed(types.err)
             ELSE [err |-> NoErr, pretty |-> a.pretty,
                   includeColumns |-> [i \in 1..Len(inc) |-> Join(inc[i])],
                   columnTypes |-> types.columnTypes,
                   inputFile |-> a.inputFile, outputFile |-> a.outputFile]

createOptions(includeColumns, columnTypes) ==
    (IF Len(includeColumns) > 0
     THEN <<[opt |-> "WithIncludeColumns", arg |-> includeColumns]>>
     ELSE <<>>)
    \o
    (IF DOMAIN columnTypes # {}
     THEN <<[opt |-> "WithColumnTypes", arg |-> columnTypes]>>
     ELSE <<>>)

(***************************************************************************)
(* Object flattener                                                        *)
(***************************************************************************)
\* Go's string order: byte-wise lexicographic.
Less(a, b) ==
    \/ \E i \in 1..Len(a) :
          /\ i <= Len(b)
          /\ a[i] < b[i]
          /\ \A j \in 1..(i - 1) : a[j] = b[j]
    \/ /\ Len(a) < Len(b)
       /\ \A j \in 1..Len(a) : a[j] = b[j]

RECURSIVE Insert(_, _)
Insert(x, s) ==
    IF s = <<>> THEN <<x>>
    ELSE IF Less(x, Head(s)) THEN <<x>> \o s
    ELSE <<Head(s)>> \o Insert(x, Tail(s))

\* slices.Sort on a slice of strings.
RECURSIVE Sort(_)
Sort(s) == IF s = <<>> THEN <<>> ELSE Insert(Head(s), Sort(Tail(s)))

\* The orders in which maps.Keys may yield the keys of j (Go leaves the
\* iteration order of a map unspecified).
KeyOrders(j) ==
    {o \in [1..Cardinality(DOMAIN j) -> DOMAIN j] :
        \A a, b \in DOMAIN o : a # b => o[a] # o[b]}

MapToHeaderStrsSorted(j, order) == [strs |-> Sort(order), err |-> NoErr]

DigitChars == <<"0", "1", "2", "3", "4", "5", "6", "7", "8", "9">>

RECURSIVE Decimal(_)
Decimal(n) ==
    IF n < 10 THEN DigitChars[n + 1]
    ELSE Decimal(n \div 10) \o DigitChars[(n % 10) + 1]

RECURSIVE ZeroPad(_, _)
ZeroPad(n, width) ==
    IF width = 0 THEN ""
    ELSE ZeroPad(n \div 10, width - 1) \o DigitChars[(n % 10) + 1]

\* fmt.Sprintf("%f", x) for x = micro / 10^6: sign, integer part, a point
\* and exactly six fractional digits.
FormatF(micro) ==
    LET abs == IF micro < 0 THEN 0 - micro ELSE micro
    IN  (IF micro < 0 THEN "-" ELSE "")
        \o Decimal(abs \div 1000000) \o "." \o ZeroPad(abs % 1000000, 6)

\* A decoded JSON value is tagged with its Go type.  A value of any other
\* shape carries its compact JSON encoding: Encode appends a newline to it
\* and strings.TrimSpace takes the newline off again.
val2str(val) ==
    CASE val.tag = "string"  -> [str |-> val.s, err |-> NoErr]
      [] val.tag = "float64" -> [str |-> FormatF(val.micro), err |-> NoErr]
      [] val.tag = "bool"    -> [str |-> IF val.b THEN "true" ELSE "false",
                                 err |-> NoErr]
      [] OTHER               -> [str |-> val.json, err |-> NoErr]

\* The loop of MapToValueStrsSorted over the sorted keys.
RECURSIVE ValueLoop(_, _, _)
ValueLoop(keys, j, vals) ==
    IF keys = <<>> THEN [strs |-> vals, err |-> NoErr]
    ELSE LET k == Head(keys)
         IN  IF k \notin DOMAIN j
             THEN [strs |-> <<>>, err |-> ErrKeyNotFound]
             ELSE LET s == val2str(j[k])
                  IN  IF s.err # NoErr
                      THEN [strs |-> <<>>, err |-> s.err]
                      ELSE ValueLoop(Tail(keys), j, Append(vals, s.str))

MapToValueStrsSorted_Unsorted(j, order) == ValueLoop(order, j, <<>>)

MapToValueStrsSorted(j, order) ==
    LET keys == MapToHeaderStrsSorted(j, order)
    IN  IF keys.err # NoErr
        THEN [strs |-> <<>>, err |-> keys.err]
        ELSE ValueLoop(keys.strs, j, <<>>)

\* csv.Writer.Write then Flush: one CSV line holding the given cells.  The
\* line is kept as the cells it encodes; its bytes are read only by the
\* collaborator's reader.
ToMapToHeaderLine(j, order) ==
    LET keys == MapToHeaderStrsSorted(j, order)
    IN  IF keys.err # NoErr THEN [line |-> <<>>, err |-> keys.err]
        ELSE [line |-> <<"csv", keys.strs>>, err |-> NoErr]

ToMapToRow1st(j, order) ==
    LET vals == MapToValueStrsSorted(j, order)
    IN  IF vals.err # NoErr THEN [line |-> <<>>, err |-> vals.err]
        ELSE [line |-> <<"csv", vals.strs>>, err |-> NoErr]

\* Input bytes are modelled by what json.Unmarshal makes of them: an error
\* (Malformed) or the decoded object.
EmptyObject == [k \in {} |-> [tag |-> "bool", b |-> TRUE]]

Malformed == [valid |-> FALSE, obj |-> EmptyObject]

JsonBytes(obj) == [valid |-> TRUE, obj |-> obj]

\* Both lines are always derived; errors.Join(ehdr, ero1) is nil only when
\* both errors are, and is represented by the first that is not.
ToJsonToCsvRaw(content, order1, order2) ==
    IF ~content.valid
    THEN [HeaderLine |-> <<>>, Row1st |-> <<>>, err |-> ErrJsonDecode]
    ELSE LET h == ToMapToHeaderLine(content.obj, order1)
             r == ToMapToRow1st(content.obj, order2)
         IN  [HeaderLine |-> h.line, Row1st |-> r.line,
              err |-> IF h.err # NoErr THEN h.err ELSE r.err]

(***************************************************************************)
(* Schema inference (the collaborator's reader) and serialization          *)
(***************************************************************************)
ArrowTypes == {"Float64", "String", "Boolean", "Int64", "Null"}

\* arrow.DataType.Name() of the collaborator.
TypeName(t) ==
    CASE t = "Float64" -> "float64"
      [] t = "String"  -> "utf8"
      [] t = "Boolean" -> "bool"
      [] t = "Int64"   -> "int64"
      [] t = "Null"    -> "null"

ToReader(c, o) ==
    [csv |-> c, opts |-> <<[opt |-> "WithHeader", arg |-> TRUE]>> \o o]

\* r is what the reader made by ToReader does on its first Next(): whether
\* it yields a record batch (and the schema of that batch), and the error
\* rdr.Err() holds when it does not.
ToSchema(c, o, r) ==
    LET reader == ToReader(c, o)
    IN  IF r.next
        THEN [called |-> TRUE, schema |-> r.schema, err |-> NoErr]
        ELSE [called |-> TRUE, schema |-> <<>>, err |-> ErrNoCsvRecordBatchGot]

SerialType_UnknownAsString(t) ==
    CASE t = "Float64" -> "float64"
      [] t = "String"  -> "utf8"
      [] t = "Boolean" -> "bool"
      [] OTHER         -> "string"

SerialType_Utf8AsString(t) ==
    CASE t = "Float64" -> "float64"
      [] t = "String"  -> "string"
      [] t = "Boolean" -> "bool"
      [] OTHER         -> TypeName(t)

\* The type switch of toSerializableSchema.
SerialType(t) ==
    CASE t = "Float64" -> "float64"
      [] t = "String"  -> "utf8"
      [] t = "Boolean" -> "bool"
      [] OTHER         -> TypeName(t)

toSerializableSchema(schema) ==
    [idx \in 1..Len(schema) |->
        [Name     |-> schema[idx].Name,
         Type     |-> SerialType(schema[idx].Type),
         Nullable |-> schema[idx].Nullable]]

\* The pipeline: read all input, flatten, build the CSV fragment, infer,
\* serialize, write.  Returns the error and what was written to the writer.
run(content, readOk, order1, order2, pretty, o, r, writeOk) ==
    IF ~readOk THEN [err |-> ErrRead, out |-> <<>>]
    ELSE
    LET csvData == ToJsonToCsvRaw(content, order1, order2)
    IN  IF csvData.err # NoErr THEN [err |-> csvData.err, out |-> <<>>]
        ELSE
        LET s == ToSchema(<<csvData.HeaderLine, csvData.Row1st>>, o, r)
        IN  IF s.err # NoErr THEN [err |-> s.err, out |-> <<>>]
            ELSE IF ~writeOk THEN [err |-> ErrWrite, out |-> <<>>]
            ELSE IF pretty
            THEN [err |-> NoErr,
                  out |-> <<[form |-> "pretty",
                             fields |-> toSerializableSchema(s.schema)]>>]
            ELSE [err |-> NoErr,
                  out |-> <<[form |-> "native", fields |-> s.schema]>>]

(***************************************************************************)
(* The command shell: cli.run, one action per statement that can fail,     *)
(* the deferred closes, and main's os.Exit.                                *)
(***************************************************************************)
Handles == {"stdin", "stdout", "infile", "outfile"}

CliArgs ==
    [flagOk : BOOLEAN, pretty : BOOLEAN, include : {<<>>, <<"a", ",", "a">>},
     types : StrSeqs(MaxCliTypesLen),
     inputFile : {"", "in.json"}, outputFile : {"", "out.txt"}]

\* Inputs of the pipeline in a run of the shell.
CliContents ==
    {Malformed,
     JsonBytes((<<97>> :> [tag |-> "bool", b |-> TRUE]) @@
               (<<98>> :> [tag |-> "float64", micro |-> 1500000]))}

CliSchema ==
    <<[Name |-> "a", Type |-> "Boolean", Nullable |-> TRUE],
      [Name |-> "b", Type |-> "Float64", Nullable |-> TRUE]>>

ReaderNoBatch == [next |-> FALSE, err |-> NoErr, schema |-> <<>>]
ReaderFailed  == [next |-> FALSE, err |-> ErrCsvReader, schema |-> <<>>]
ReaderBatch(schema) == [next |-> TRUE, err |-> NoErr, schema |-> schema]

CliReaders == {ReaderNoBatch, ReaderFailed, ReaderBatch(CliSchema)}

NoParse  == [called |-> FALSE]
NoSchema == [called |-> FALSE, schema |-> <<>>, err |-> NoErr]

\* fmt.Fprintf / Fprintln of an error to handle h, when Close has been
\* called cc[h] times on it: the write is delivered only to an open handle.
Report(h, cc, stage, label, err) ==
    [to |-> h, kind |-> "error", stage |-> stage, label |-> label,
     text |-> err, delivered |-> cc[h] = 0]

SchemaWrite(h, cc, text) ==
    [to |-> h, kind |-> "schema", stage |-> "pipeline", label |-> "",
     text |-> text, delivered |-> cc[h] = 0]

PushDefer_Forget(stack, f) == stack

\* defer f(): deferred calls run last in, first out.
PushDefer(stack, f) == <<f>> \o stack

ReturnAfterRun_IgnoreError(err, exitCode) == exitCode

\* "if err != nil { ...; return 1 }; return cliApp.ExitCode": the operand of
\* the return statement is evaluated when the statement runs.
ReturnAfterRun(err, exitCode) == IF err # NoErr THEN 1 ELSE exitCode

CliInit ==
    /\ pc = "parseFlags"
    /\ Args \in CliArgs
    /\ parsed = NoParse
    /\ Input = "stdin"
    /\ Output = "stdout"
    /\ acquired = {}
    /\ closeCalls = [h \in Handles |-> 0]
    /\ created = {}
    /\ inputRead = FALSE
    /\ written = <<>>
    /\ errs = <<>>
    /\ ExitCode = 0
    /\ ret = NotYet
    /\ deferred = <<>>
    /\ exited = NotYet
    /\ opts = <<>>

FlattenIdle ==
    /\ jsonMap = <<>>
    /\ hdr = [called |-> FALSE]
    /\ row = [called |-> FALSE]

SchemaIdle ==
    /\ rdr = ReaderNoBatch
    /\ schemaRes = NoSchema
    /\ serial = [called |-> FALSE]

Init == CliInit /\ FlattenIdle /\ SchemaIdle

\* run, lines 50-54.
ParseFlags ==
    /\ pc = "parseFlags"
    /\ parsed' = [called |-> TRUE] @@ parseFlags(Args)
    /\ IF parsed'.err # NoErr
       THEN /\ written' = Append(written,
                    Report(Output, closeCalls, "flags", parsed'.err, parsed'.err))
            /\ errs' = Append(errs, [stage |-> "flags", err |-> parsed'.err])
            /\ ret' = 1
            /\ pc' = "return"
       ELSE /\ pc' = "openInput"
            /\ UNCHANGED <<written, errs, ret>>
    /\ UNCHANGED <<Args, Input, Output, acquired, closeCalls, created,
                   inputRead, ExitCode, deferred, exited, opts>>
    /\ UNCHANGED <<flattenVars, schemaVars>>

\* run, lines 56-67, with openInput.
OpenInput ==
    /\ pc = "openInput"
    /\ \E openOk \in BOOLEAN :
          IF parsed.inputFile # "" /\ ~openOk
          THEN /\ written' = Append(written,
                       Report(Output, closeCalls, "openInput",
                              "Error opening input file: ", ErrOpen))
               /\ errs' = Append(errs, [stage |-> "openInput", err |-> ErrOpen])
               /\ ret' = 1
               /\ pc' = "return"
               /\ UNCHANGED <<Input, acquired, deferred>>
          ELSE /\ Input' = IF parsed.inputFile # "" THEN "infile" ELSE Input
               /\ acquired' = acquired \cup {Input'}
               /\ deferred' = PushDefer(deferred, "closeInput")
               /\ pc' = "openOutput"
               /\ UNCHANGED <<written, errs, ret>>
    /\ UNCHANGED <<Args, parsed, Output, closeCalls, created, inputRead,
                   ExitCode, exited, opts>>
    /\ UNCHANGED <<flattenVars, schemaVars>>

\* run, lines 69-80, with openOutput.
OpenOutput ==
    /\ pc = "openOutput"
    /\ \E createOk \in BOOLEAN :
          IF parsed.outputFile # "" /\ ~createOk
          THEN /\ written' = Append(written,
                       Report(Output, closeCalls, "openOutput",
                              "Error creating output file: ", ErrOpen))
               /\ errs' = Append(errs, [stage |-> "openOutput", err |-> ErrOpen])
               /\ ret' = 1
               /\ pc' = "return"
               /\ UNCHANGED <<Output, acquired, created, deferred>>
          ELSE /\ Output' = IF parsed.outputFile # "" THEN "outfile" ELSE Output
               /\ created' = IF parsed.outputFile # ""
                             THEN created \cup {"outfile"} ELSE created
               /\ acquired' = acquired \cup {Output'}
               /\ deferred' = PushDefer(deferred, "closeOutput")
               /\ pc' = "run"
               /\ UNCHANGED <<written, errs, ret>>
    /\ UNCHANGED <<Args, parsed, Input, closeCalls, inputRead, ExitCode,
                   exited, opts>>
    /\ UNCHANGED <<flattenVars, schemaVars>>

\* run, lines 82-90: createOptions, the pipeline, and the return statement.
RunPipeline ==
    /\ pc = "run"
    /\ opts' = createOptions(parsed.includeColumns, parsed.columnTypes)
    /\ \E content \in CliContents, readOk \in BOOLEAN, r \in CliReaders,
          writeOk \in BOOLEAN :
        \E order1, order2 \in KeyOrders(content.obj) :
          LET res == run(content, readOk, order1, order2, parsed.pretty,
                         opts', r, writeOk)
              out == [i \in 1..Len(res.out) |->
                         SchemaWrite(Output, closeCalls, res.out[i])]
          IN  /\ IF res.err # NoErr
                 THEN /\ written' = Append(written \o out,
                              Report(Output, closeCalls, "pipeline",
                                     "Error: ", res.err))
                      /\ errs' = Append(errs,
                              [stage |-> "pipeline", err |-> res.err])
                 ELSE /\ written' = written \o out
                      /\ errs' = errs
              /\ ret' = ReturnAfterRun(res.err, ExitCode)
    /\ inputRead' = TRUE
    /\ pc' = "return"
    /\ UNCHANGED <<Args, parsed, Input, Output, acquired, closeCalls, created,
                   ExitCode, deferred, exited>>
    /\ UNCHANGED <<flattenVars, schemaVars>>

\* The deferred function of lines 74-80.
DeferCloseOutput ==
    /\ pc = "return"
    /\ deferred # <<>>
    /\ Head(deferred) = "closeOutput"
    /\ closeCalls' = [closeCalls EXCEPT ![Output] = @ + 1]
    /\ \E closeOk \in BOOLEAN :
          IF ~closeOk
          THEN /\ written' = Append(written,
                       Report(Output, closeCalls', "closeOutput",
                              "Error closing output file: ", ErrClose))
               /\ errs' = Append(errs, [stage |-> "closeOutput", err |-> ErrClose])
               /\ ExitCode' = 1
          ELSE UNCHANGED <<written, errs, ExitCode>>
    /\ deferred' = Tail(deferred)
    /\ UNCHANGED <<pc, Args, parsed, Input, Output, acquired, created,
                   inputRead, ret, exited, opts>>
    /\ UNCHANGED <<flattenVars, schemaVars>>

\* The deferred function of lines 61-67.
DeferCloseInput ==
    /\ pc = "return"
    /\ deferred # <<>>
    /\ Head(deferred) = "closeInput"
    /\ closeCalls' = [closeCalls EXCEPT ![Input] = @ + 1]
    /\ \E closeOk \in BOOLEAN :
          IF ~closeOk
          THEN /\ written' = Append(written,
                       Report(Output, closeCalls', "closeInput",
                              "Error closing input file: ", ErrClose))
               /\ errs' = Append(errs, [stage |-> "closeInput", err |-> ErrClose])
               /\ ExitCode' = 1
          ELSE UNCHANGED <<written, errs, ExitCode>>
    /\ deferred' = Tail(deferred)
    /\ UNCHANGED <<pc, Args, parsed, Input, Output, acquired, created,
                   inputRead, ret, exited, opts>>
    /\ UNCHANGED <<flattenVars, schemaVars>>

\* main, line 44: os.Exit with the value run returned, once the deferred
\* calls have run.
Exit ==
    /\ pc = "return"
    /\ deferred = <<>>
    /\ exited' = ret
    /\ pc' = "done"
    /\ UNCHANGED <<Args, parsed, Input, Output, acquired, closeCalls, created,
                   inputRead, written, errs, ExitCode, ret, deferred, opts>>
    /\ UNCHANGED <<flattenVars, schemaVars>>

Next ==
    \/ ParseFlags
    \/ OpenInput
    \/ OpenOutput
    \/ RunPipeline
    \/ DeferCloseOutput
    \/ DeferCloseInput
    \/ Exit

Spec == Init /\ [][Next]_vars

(***************************************************************************)
(* Flag parsing on its own: parseFlags, then createOptions.                *)
(***************************************************************************)
FlagArgs ==
    [flagOk : BOOLEAN, pretty : {FALSE}, include : {<<>>, <<"a", ",", "a">>},
     types : StrSeqs(MaxTypesLen), inputFile : {""}, outputFile : {""}]

FlagsInit ==
    /\ pc = "parseFlags"
    /\ Args \in FlagArgs
    /\ parsed = NoParse
    /\ Input = "stdin"
    /\ Output = "stdout"
    /\ acquired = {}
    /\ closeCalls = [h \in Handles |-> 0]
    /\ created = {}
    /\ inputRead = FALSE
    /\ written = <<>>
    /\ errs = <<>>
    /\ ExitCode = 0
    /\ ret = NotYet
    /\ deferred = <<>>
    /\ exited = NotYet
    /\ opts = <<>>
    /\ FlattenIdle
    /\ SchemaIdle

CallParseFlags ==
    /\ pc = "parseFlags"
    /\ parsed' = [called |-> TRUE] @@ parseFlags(Args)
    /\ pc' = IF parsed'.err # NoErr THEN "done" ELSE "createOptions"
    /\ UNCHANGED <<Args, Input, Output, acquired, closeCalls, created,
                   inputRead, written, errs, ExitCode, ret, deferred, exited,
                   opts>>
    /\ UNCHANGED <<flattenVars, schemaVars>>

CallCreateOptions ==
    /\ pc = "createOptions"
    /\ opts' = createOptions(parsed.includeColumns, parsed.columnTypes)
    /\ pc' = "done"
    /\ UNCHANGED <<Args, parsed, Input, Output, acquired, closeCalls, created,
                   inputRead, written, errs, ExitCode, ret, deferred, exited>>
    /\ UNCHANGED <<flattenVars, schemaVars>>

FlagsNext == CallParseFlags \/ CallCreateOptions

SpecFlags == FlagsInit /\ [][FlagsNext]_vars

(***************************************************************************)
(* The flattener on its own: both derivations of one decoded object.       *)
(***************************************************************************)
JsonKeys == {<<>>, <<97>>, <<97, 98>>, <<98>>, <<98, 97>>}

JsonValues ==
    {[tag |-> "string", s |-> "bar"],
     [tag |-> "float64", micro |-> 1500000],
     [tag |-> "float64", micro |-> 0 - 250000],
     [tag |-> "bool", b |-> TRUE],
     [tag |-> "bool", b |-> FALSE],
     [tag |-> "other", json |-> "null"]}

JsonObjects ==
    UNION {[ks -> JsonValues] :
              ks \in {k \in SUBSET JsonKeys : Cardinality(k) <= MaxKeys}}

CliIdle ==
    /\ pc = "idle"
    /\ Args = [flagOk |-> TRUE, pretty |-> FALSE, include |-> <<>>,
               types |-> <<>>, inputFile |-> "", outputFile |-> ""]
    /\ parsed = NoParse
    /\ Input = "stdin"
    /\ Output = "stdout"
    /\ acquired = {}
    /\ closeCalls = [h \in Handles |-> 0]
    /\ created = {}
    /\ inputRead = FALSE
    /\ written = <<>>
    /\ errs = <<>>
    /\ ExitCode = 0
    /\ ret = NotYet
    /\ deferred = <<>>
    /\ exited = NotYet
    /\ opts = <<>>

FlattenInit ==
    /\ jsonMap \in JsonObjects
    /\ hdr = [called |-> FALSE]
    /\ row = [called |-> FALSE]
    /\ CliIdle
    /\ SchemaIdle

CallMapToHeaderStrsSorted ==
    /\ ~hdr.called
    /\ \E order \in KeyOrders(jsonMap) :
          hdr' = [called |-> TRUE] @@ MapToHeaderStrsSorted(jsonMap, order)
    /\ UNCHANGED <<jsonMap, row>>
    /\ UNCHANGED <<cliVars, schemaVars>>

CallMapToValueStrsSorted ==
    /\ ~row.called
    /\ \E order \in KeyOrders(jsonMap) :
          row' = [called |-> TRUE] @@ MapToValueStrsSorted(jsonMap, order)
    /\ UNCHANGED <<jsonMap, hdr>>
    /\ UNCHANGED <<cliVars, schemaVars>>

FlattenNext == CallMapToHeaderStrsSorted \/ CallMapToValueStrsSorted

SpecFlatten == FlattenInit /\ [][FlattenNext]_vars

(***************************************************************************)
(* Inference and serialization on their own: ToSchema on a reader of any   *)
(* behaviour, then toSerializableSchema on the schema it returned.         *)
(***************************************************************************)
SchemaFields == [Name : {"a", "b"}, Type : ArrowTypes, Nullable : BOOLEAN]

Schemas == UNION {[1..n -> SchemaFields] : n \in 0..MaxFields}

SchemaReaders == {ReaderNoBatch, ReaderFailed} \cup {ReaderBatch(x) : x \in Schemas}

SchemaInit ==
    /\ rdr \in SchemaReaders
    /\ schemaRes = NoSchema
    /\ serial = [called |-> FALSE]
    /\ CliIdle
    /\ FlattenIdle

CallToSchema ==
    /\ ~schemaRes.called
    /\ schemaRes' = ToSchema(<<>>, <<>>, rdr)
    /\ UNCHANGED <<rdr, serial>>
    /\ UNCHANGED <<cliVars, flattenVars>>

CallToSerializableSchema ==
    /\ schemaRes.called
    /\ schemaRes.err = NoErr
    /\ ~serial.called
    /\ serial' = [called |-> TRUE,
                  Fields |-> toSerializableSchema(schemaRes.schema)]
    /\ UNCHANGED <<rdr, schemaRes>>
    /\ UNCHANGED <<cliVars, flattenVars>>

SchemaNext == CallToSchema \/ CallToSerializableSchema

SpecSchema == SchemaInit /\ [][SchemaNext]_vars

(***************************************************************************)
(* Properties                                                              *)
(***************************************************************************)
Failed(stage) == \E i \in DOMAIN errs : errs[i].stage = stage

\* The comma-separated tokens of a -types value t, each as the pair
\* <<lo, hi>> of the positions that enclose it.
TokenEdges(t) == {0, Len(t) + 1} \cup {i \in 1..Len(t) : t[i] = ","}

Tokens(t) ==
    {e \in TokenEdges(t) \X TokenEdges(t) :
        /\ e[1] < e[2]
        /\ \A m \in TokenEdges(t) : ~(e[1] < m /\ m < e[2])}

Colons(t, e) == {i \in (e[1] + 1)..(e[2] - 1) : t[i] = ":"}

\* Some token of t does not split on ":" into exactly two parts.
MalformedTypes(t) ==
    /\ t # <<>>
    /\ \E e \in Tokens(t) : Cardinality(Colons(t, e)) # 1

WellFormedTypes(t) == ~MalformedTypes(t)

ColonOf(t, e)  == CHOOSE i \in Colons(t, e) : TRUE
NameOf(t, e)   == Join(SubSeq(t, e[1] + 1, ColonOf(t, e) - 1))
TypeTokenOf(t, e) == Join(SubSeq(t, ColonOf(t, e) + 1, e[2] - 1))

\* The type a -types token forces, as the claim C10 states it.
ForcedType(tok) ==
    IF tok = "float64" THEN "Float64"
    ELSE IF tok = "bool" THEN "Boolean"
    ELSE "String"

\* C1: a run in which flag parsing, both opens and the pipeline succeed
\* but closing the output handle fails ends with process exit code 1.
C1_OutputCloseFailureExitsOne ==
    (/\ pc = "done"
     /\ Failed("closeOutput")
     /\ ~Failed("flags") /\ ~Failed("openInput")
     /\ ~Failed("openOutput") /\ ~Failed("pipeline"))
    => exited = 1

\* C2: the exit code is 0 when flag parsing, both opens, the pipeline and
\* both closes succeed, and 1 whenever flag parsing, an open or the
\* pipeline fails.
C2_ExitCodes ==
    pc = "done" =>
        /\ (errs = <<>> => exited = 0)
        /\ ((Failed("flags") \/ Failed("openInput") \/ Failed("openOutput")
               \/ Failed("pipeline")) => exited = 1)

C2_Witness ==
    /\ pc = "done"
    /\ Failed("pipeline")
    /\ errs[Len(errs)].err = ErrJsonDecode
    /\ exited = 1

\* C3: a -types value with a token that does not split on ":" into exactly
\* two parts makes the run fail with ErrInvalidTypeMapping before openInput
\* or openOutput: no handle is opened or closed, no output file is created,
\* the input is never read and no schema text is written.
C3_MalformedTypesFailBeforeIO ==
    MalformedTypes(Args.types) =>
        /\ pc \in {"parseFlags", "return", "done"}
        /\ (parsed.called /\ Args.flagOk => parsed.err = ErrInvalidTypeMapping)
        /\ (parsed.called => parsed.err # NoErr)
        /\ Input = "stdin" /\ Output = "stdout"
        /\ acquired = {} /\ created = {}
        /\ \A h \in Handles : closeCalls[h] = 0
        /\ ~inputRead
        /\ \A i \in DOMAIN written : written[i].kind # "schema"
        /\ (pc = "done" => exited = 1)

C3_Witness ==
    /\ pc = "done"
    /\ Args.flagOk
    /\ Args.types = <<"a">>
    /\ Args.outputFile = "out.txt"
    /\ parsed.err = ErrInvalidTypeMapping
    /\ exited = 1

\* C4: on every exit path of run each handle that was acquired has been
\* closed exactly once when run returns, and no other handle is closed:
\* the input is closed when opening the output fails, and both are closed
\* when the pipeline fails.
C4_AcquiredClosedOnce ==
    /\ \A h \in Handles : closeCalls[h] <= 1
    /\ pc = "done" =>
          /\ \A h \in Handles : closeCalls[h] = IF h \in acquired THEN 1 ELSE 0
          /\ (Failed("openOutput") => closeCalls[Input] = 1)
          /\ (Failed("pipeline") => closeCalls[Input] = 1 /\ closeCalls[Output] = 1)

C4_Witness ==
    /\ pc = "done"
    /\ Failed("openOutput")
    /\ Input = "infile"
    /\ closeCalls["infile"] = 1

\* C5: every error of a run is reported exactly once to the output
\* destination, under a label naming the stage, by a write made while the
\* output destination is still open, and the process then exits with 1.
C5_EveryErrorReportedAndExitOne ==
    pc = "done" =>
        /\ \A i \in DOMAIN errs :
              /\ Cardinality({k \in DOMAIN written :
                                 /\ written[k].kind = "error"
                                 /\ written[k].stage = errs[i].stage}) = 1
              /\ \A k \in DOMAIN written :
                    (written[k].kind = "error" /\ written[k].stage = errs[i].stage)
                    => /\ written[k].to = Output
                       /\ written[k].label # ""
                       /\ written[k].delivered
        /\ (errs # <<>> => exited = 1)

\* C6: ToSchema propagates the error of a reader that stopped with one, and
\* returns ErrNoCsvRecordBatchGot only for a reader that yielded no record
\* batch and reported no error.
C6_ReaderErrorPropagated ==
    schemaRes.called =>
        /\ (~rdr.next /\ rdr.err # NoErr => schemaRes.err = rdr.err)
        /\ (schemaRes.err = ErrNoCsvRecordBatchGot => ~rdr.next /\ rdr.err = NoErr)

OnlyScalars(j) ==
    \A k \in DOMAIN j : j[k].tag \in {"string", "float64", "bool"}

\* The text of a scalar JSON value, as C7 and the spec's section 4.1 give it.
ScalarText(v) ==
    CASE v.tag = "string" -> v.s
      [] v.tag = "bool"   -> IF v.b THEN "true" ELSE "false"
      [] v.tag = "float64" /\ v.micro = 1500000    -> "1.500000"
      [] v.tag = "float64" /\ v.micro = 0 - 250000 -> "-0.250000"

\* C7: for an object with only string, number and boolean values both
\* derivations succeed, have as many entries as the object has keys, the
\* keys are strictly ascending in byte order and the i-th value is the text
\* of the value at the i-th key; {"b": 1.5, "a": true} gives a,b and
\* true,1.500000.
C7_FlattenAligned ==
    OnlyScalars(jsonMap) =>
        /\ hdr.called =>
              /\ hdr.err = NoErr
              /\ Len(hdr.strs) = Cardinality(DOMAIN jsonMap)
              /\ \A i \in 1..(Len(hdr.strs) - 1) :
                    Less(hdr.strs[i], hdr.strs[i + 1])
              /\ \A i \in 1..Len(hdr.strs) : hdr.strs[i] \in DOMAIN jsonMap
        /\ row.called =>
              /\ row.err = NoErr
              /\ Len(row.strs) = Cardinality(DOMAIN jsonMap)
        /\ (hdr.called /\ row.called) =>
              /\ Len(hdr.strs) = Len(row.strs)
              /\ \A i \in 1..Len(hdr.strs) :
                    row.strs[i] = ScalarText(jsonMap[hdr.strs[i]])
              /\ (jsonMap = (<<98>> :> [tag |-> "float64", micro |-> 1500000])
                            @@ (<<97>> :> [tag |-> "bool", b |-> TRUE]))
                 => /\ hdr.strs = << <<97>>, <<98>> >>
                    /\ row.strs = <<"true", "1.500000">>

C7_Witness ==
    /\ hdr.called /\ row.called
    /\ DOMAIN jsonMap = {<<98>>, <<97, 98>>, <<97>>}
    /\ jsonMap[<<98>>] = [tag |-> "float64", micro |-> 1500000]
    /\ jsonMap[<<97>>] = [tag |-> "bool", b |-> TRUE]
    /\ jsonMap[<<97, 98>>] = [tag |-> "string", s |-> "bar"]
    /\ hdr.strs = << <<97>>, <<97, 98>>, <<98>> >>
    /\ row.strs = <<"true", "bar", "1.500000">>

\* C8: toSerializableSchema returns one entry per schema field, in order,
\* with the name and nullability unchanged and the type "float64", "utf8",
\* "bool" for a 64-bit float, string, boolean field and the collaborator's
\* type name for any other.
C8_SerializableSchema ==
    serial.called =>
        /\ Len(serial.Fields) = Len(schemaRes.schema)
        /\ \A i \in 1..Len(schemaRes.schema) :
              LET f == schemaRes.schema[i]
                  g == serial.Fields[i]
              IN  /\ g.Name = f.Name
                  /\ g.Nullable = f.Nullable
                  /\ f.Type = "Float64" => g.Type = "float64"
                  /\ f.Type = "String"  => g.Type = "utf8"
                  /\ f.Type = "Boolean" => g.Type = "bool"
                  /\ f.Type = "Int64"   => g.Type = "int64"
                  /\ f.Type = "Null"    => g.Type = "null"

C8_Witness ==
    /\ serial.called
    /\ schemaRes.schema =
          <<[Name |-> "b", Type |-> "String", Nullable |-> FALSE],
            [Name |-> "a", Type |-> "Int64", Nullable |-> TRUE]>>
    /\ serial.Fields =
          <<[Name |-> "b", Type |-> "utf8", Nullable |-> FALSE],
            [Name |-> "a", Type |-> "int64", Nullable |-> TRUE]>>

Recognized == {"Float64", "String", "Boolean"}

\* C9 as stated: in the pretty form a field whose inferred type is not a
\* 64-bit float, a string or a boolean is emitted with type "string".
C9_UnrecognizedAsString ==
    serial.called =>
        \A i \in 1..Len(schemaRes.schema) :
            schemaRes.schema[i].Type \notin Recognized
            => serial.Fields[i].Type = "string"

\* C9 as amended: in the pretty form a field whose inferred type is not a
\* 64-bit float, a string or a boolean is emitted with the collaborator's
\* own name of that type, which is never "string".
C9_UnrecognizedAsTypeName ==
    serial.called =>
        \A i \in 1..Len(schemaRes.schema) :
            schemaRes.schema[i].Type \notin Recognized
            => /\ serial.Fields[i].Type = TypeName(schemaRes.schema[i].Type)
               /\ serial.Fields[i].Type # "string"

C9_Witness ==
    /\ serial.called
    /\ Len(schemaRes.schema) = 1
    /\ schemaRes.schema[1].Type = "Int64"
    /\ serial.Fields[1].Type = "int64"

\* C10: for a well-formed -types value parseFlags succeeds with a map whose
\* keys are exactly the names of the pairs, each name mapped to the type of
\* its token (of the last pair naming it, when several do): "float64" to
\* 64-bit float, "bool" to boolean, "string" and any other token to string;
\* createOptions hands that map over unchanged exactly when it is not empty.
C10_OverrideMap ==
    (parsed.called /\ Args.flagOk /\ WellFormedTypes(Args.types)) =>
        LET t == Args.types
            toks == IF t = <<>> THEN {} ELSE Tokens(t)
        IN  /\ parsed.err = NoErr
            /\ DOMAIN parsed.columnTypes = {NameOf(t, e) : e \in toks}
            /\ \A e \in toks :
                  (\A l \in toks : NameOf(t, l) = NameOf(t, e) => l[1] <= e[1])
                  => parsed.columnTypes[NameOf(t, e)] = ForcedType(TypeTokenOf(t, e))
            /\ pc = "done" =>
                  LET given == {i \in DOMAIN opts : opts[i].opt = "WithColumnTypes"}
                  IN  IF toks = {}
                      THEN given = {}
                      ELSE /\ Cardinality(given) = 1
                           /\ \A i \in given : opts[i].arg = parsed.columnTypes

C10_Witness ==
    /\ pc = "done"
    /\ Args.flagOk
    /\ Args.include = <<>>
    /\ Args.types = <<"a", ":", "float64">>
    /\ parsed.columnTypes = ("a" :> "Float64")
    /\ opts = <<[opt |-> "WithColumnTypes", arg |-> ("a" :> "Float64")]>>

====
